---------------------------- MODULE Spec2Model ----------------------------
(***************************************************************************)
(* Model of the email-classifier training pipeline:                        *)
(*   ml/prepare_training_data.py  extract_features, prepare_dataset        *)
(*   ml/train_model.py            train_email_classifier and its __main__  *)
(*                                                                         *)
(* A Python str is a sequence of one-character strings, a dict built by    *)
(* successive assignments is the sequence of its <<key, value>> pairs in   *)
(* insertion order, and a DataFrame is [columns, rows].  Fitted estimators *)
(* are abstracted to what the pipeline observes of them: which partition   *)
(* they were fitted on, how many columns they saw, and how many test rows  *)
(* they predicted correctly (chosen nondeterministically).                 *)
(***************************************************************************)
EXTENDS Integers, Sequences, FiniteSets, TLC

(* ------------------------------ bounds -------------------------------- *)
\* longest corpus made of arbitrary sample records
MaxShort == 2
\* most CARGO / VESSEL records in a two-block corpus
MaxCargo == 7
MaxVessel == 3
\* number of pipeline runs against the same output directory
MaxRuns == 2

(* ------------------------- Python str helpers ------------------------- *)
UpperAlpha ==
    <<"A","B","C","D","E","F","G","H","I","J","K","L","M",
      "N","O","P","Q","R","S","T","U","V","W","X","Y","Z">>
LowerAlpha ==
    <<"a","b","c","d","e","f","g","h","i","j","k","l","m",
      "n","o","p","q","r","s","t","u","v","w","x","y","z">>
Digits == {"0","1","2","3","4","5","6","7","8","9"}
\* regex classes \s and \w
Whitespace == {" ", "\t", "\n", "\r"}
WordChars ==
    {UpperAlpha[i] : i \in 1..26} \cup {LowerAlpha[i] : i \in 1..26}
        \cup Digits \cup {"_"}

\* str.lower() on one character
LowerChar(c) ==
    IF \E i \in 1..26 : UpperAlpha[i] = c
    THEN LowerAlpha[CHOOSE i \in 1..26 : UpperAlpha[i] = c]
    ELSE c

\* str.lower()
RECURSIVE lower(_)
lower(s) == IF s = <<>> THEN <<>> ELSE <<LowerChar(Head(s))>> \o lower(Tail(s))

\* whether s[p..] starts with sub
StartsAt(sub, s, p) ==
    /\ p + Len(sub) - 1 <= Len(s)
    /\ \A k \in 1..Len(sub) : s[p + k - 1] = sub[k]

\* Python's `sub in s` on str
In(sub, s) == \E p \in 1..(Len(s) + 1) : StartsAt(sub, s, p)

\* [F(x) for x in s], and range(1, n + 1)
RECURSIVE MapSeq(_, _)
MapSeq(F(_), s) == IF s = <<>> THEN <<>> ELSE <<F(Head(s))>> \o MapSeq(F, Tail(s))
RECURSIVE Range(_)
Range(n) == IF n = 0 THEN <<>> ELSE Append(Range(n - 1), n)

\* dict.get(key, default)
Get(d, key, default) == IF key \in DOMAIN d THEN d[key] ELSE default

\* value stored under key k of an insertion-ordered dict
DictGet(d, k) == d[CHOOSE i \in 1..Len(d) : d[i][1] = k][2]
DictKeys(d) == MapSeq(LAMBDA kv : kv[1], d)

SeqToSet(s) == {s[i] : i \in 1..Len(s)}

(* ----------------------- prepare_training_data.py --------------------- *)
cargo_keywords ==
    << <<"c","a","r","g","o">>, <<"s","h","i","p","m","e","n","t">>, <<"l","o","a","d","i","n","g">>,
        <<"d","i","s","c","h","a","r","g","e">>, <<"c","o","m","m","o","d","i","t","y">>, <<"m","t">>,
        <<"m","e","t","r","i","c"," ","t","o","n","s">>, <<"t","e","u">>, <<"c","o","n","t","a","i","n","e","r">>,
        <<"b","u","l","k">>, <<"b","r","e","a","k","b","u","l","k">>, <<"p","r","o","j","e","c","t"," ","c","a","r","g","o">>,
        <<"r","e","e","f","e","r">>, <<"g","r","a","i","n">>, <<"c","o","a","l">>,
        <<"i","r","o","n"," ","o","r","e">>, <<"s","t","e","e","l">>, <<"c","h","e","m","i","c","a","l">>,
        <<"o","i","l">>, <<"l","n","g">>, <<"c","e","m","e","n","t">>,
        <<"t","i","m","b","e","r">>, <<"l","o","g","s">>, <<"r","i","c","e">>,
        <<"w","h","e","a","t">>, <<"s","u","g","a","r">>, <<"f","e","r","t","i","l","i","z","e","r">>,
        <<"b","a","u","x","i","t","e">>, <<"a","l","u","m","i","n","a">>, <<"c","o","p","p","e","r">>,
        <<"n","i","c","k","e","l">>, <<"s","c","r","a","p">>, <<"m","e","t","a","l">>,
        <<"f","r","o","z","e","n">>, <<"f","o","o","d">>, <<"e","l","e","c","t","r","o","n","i","c","s">>,
        <<"a","u","t","o","m","o","t","i","v","e">>, <<"p","a","r","t","s">>, <<"m","a","c","h","i","n","e","r","y">>,
        <<"e","q","u","i","p","m","e","n","t">>, <<"n","e","e","d"," ","v","e","s","s","e","l">>, <<"l","o","o","k","i","n","g"," ","f","o","r"," ","v","e","s","s","e","l">>,
        <<"r","e","q","u","i","r","e"," ","v","e","s","s","e","l">>, <<"b","o","o","k","i","n","g">>, <<"f","r","e","i","g","h","t"," ","r","a","t","e">>,
        <<"l","a","y","c","a","n">>, <<"l","o","a","d"," ","p","o","r","t">>, <<"d","i","s","c","h","a","r","g","e"," ","p","o","r","t">>,
        <<"d","e","s","t","i","n","a","t","i","o","n">> >>

vessel_keywords ==
    << <<"v","e","s","s","e","l">>, <<"s","h","i","p">>, <<"m","v">>,
        <<"m","/","v">>, <<"d","w","t">>, <<"d","r","a","f","t">>,
        <<"l","o","a">>, <<"b","e","a","m">>, <<"o","p","e","n">>,
        <<"a","v","a","i","l","a","b","l","e">>, <<"p","o","s","i","t","i","o","n">>, <<"c","h","a","r","t","e","r">>,
        <<"h","i","r","e">>, <<"t","c">>, <<"t","i","m","e"," ","c","h","a","r","t","e","r">>,
        <<"v","o","y","a","g","e"," ","c","h","a","r","t","e","r">>, <<"s","p","o","t">>, <<"p","a","n","a","m","a","x">>,
        <<"c","a","p","e","s","i","z","e">>, <<"h","a","n","d","y","m","a","x">>, <<"h","a","n","d","y","s","i","z","e">>,
        <<"s","u","p","r","a","m","a","x">>, <<"u","l","t","r","a","m","a","x">>, <<"v","l","c","c">>,
        <<"s","u","e","z","m","a","x">>, <<"a","f","r","a","m","a","x">>, <<"t","a","n","k","e","r">>,
        <<"b","u","l","k"," ","c","a","r","r","i","e","r">>, <<"c","o","n","t","a","i","n","e","r"," ","v","e","s","s","e","l">>, <<"g","e","n","e","r","a","l"," ","c","a","r","g","o">>,
        <<"m","u","l","t","i","p","u","r","p","o","s","e">>, <<"m","p","p">>, <<"h","e","a","v","y"," ","l","i","f","t">>,
        <<"c","h","e","m","i","c","a","l"," ","t","a","n","k","e","r">>, <<"p","r","o","d","u","c","t"," ","t","a","n","k","e","r">>, <<"l","n","g"," ","c","a","r","r","i","e","r">>,
        <<"l","p","g"," ","c","a","r","r","i","e","r">>, <<"c","a","r"," ","c","a","r","r","i","e","r">>, <<"p","c","t","c">>,
        <<"r","o","r","o">>, <<"r","e","e","f","e","r"," ","v","e","s","s","e","l">>, <<"c","r","a","n","e">>,
        <<"g","e","a","r">>, <<"g","e","a","r","e","d">>, <<"g","e","a","r","l","e","s","s">>,
        <<"h","o","l","d","s">>, <<"h","a","t","c","h","e","s">>, <<"i","c","e"," ","c","l","a","s","s">>,
        <<"d","o","u","b","l","e"," ","h","u","l","l">>, <<"c","e","r","t","i","f","i","c","a","t","e","s">>, <<"c","l","a","s","s">>,
        <<"f","l","a","g">> >>

\* sum(1 for keyword in keywords if keyword in text)
KeywordCount(keywords, text) ==
    Cardinality({i \in 1..Len(keywords) : In(keywords[i], text)})

\* re.search(r'\d+[\s,]*(?:mt|tons?|dwt|teu|cbm)', text)
tonnage_units ==
    { <<"m","t">>, <<"t","o","n">>, <<"d","w","t">>, <<"t","e","u">>, <<"c","b","m">> }
has_tonnage(text) ==
    \E d \in 1..Len(text) : \E u \in (d + 1)..Len(text) :
        /\ text[d] \in Digits
        /\ \A k \in (d + 1)..(u - 1) : text[k] \in Whitespace \cup {","}
        /\ \E unit \in tonnage_units : StartsAt(unit, text, u)

\* re.search(r'm/?v\s+[\w\s]+', text)
has_vessel_name(text) ==
    \E m \in 1..Len(text) : \E v \in {m + 1, m + 2} :
        /\ text[m] = "m"
        /\ v = m + 2 => (v <= Len(text) /\ text[m + 1] = "/")
        /\ v + 2 <= Len(text)
        /\ text[v] = "v"
        /\ text[v + 1] \in Whitespace
        /\ text[v + 2] \in WordChars \cup Whitespace

\* re.search(r'(singapore|rotterdam|shanghai|houston|hamburg|santos|yokohama)', text)
port_names ==
    { <<"s","i","n","g","a","p","o","r","e">>, <<"r","o","t","t","e","r","d","a","m">>,
      <<"s","h","a","n","g","h","a","i">>, <<"h","o","u","s","t","o","n">>,
      <<"h","a","m","b","u","r","g">>, <<"s","a","n","t","o","s">>,
      <<"y","o","k","o","h","a","m","a">> }
has_port_names(text) == \E port \in port_names : In(port, text)

shipping_domains ==
    { <<"s","h","i","p","p","i","n","g">>, <<"m","a","r","i","t","i","m","e">>,
      <<"v","e","s","s","e","l">>, <<"f","l","e","e","t">>,
      <<"t","a","n","k","e","r">>, <<"b","u","l","k">> }
cargo_domains ==
    { <<"c","a","r","g","o">>, <<"l","o","g","i","s","t","i","c","s">>,
      <<"e","x","p","o","r","t">>, <<"i","m","p","o","r","t">>,
      <<"t","r","a","d","e">>, <<"c","o","m","m","o","d","i","t","y">> }

\* the test written the wrong way round: any(sender in domain ...)
SenderMatchesReversed(domains, sender) == \E domain \in domains : In(sender, domain)

\* any(domain in sender for domain in domains)
SenderMatches(domains, sender) == \E domain \in domains : In(domain, sender)

\* f"{email.get('subject', '')} {email.get('body', '')}".lower()
SearchText(email) ==
    lower(Get(email, "subject", <<>>) \o <<" ">> \o Get(email, "body", <<>>))

\* the features dict, in the order its keys are assigned
extract_features(email) ==
    LET text == SearchText(email)
        sender == Get(email, "sender", <<>>)
    IN << <<"cargo_keyword_count", KeywordCount(cargo_keywords, text)>>,
          <<"vessel_keyword_count", KeywordCount(vessel_keywords, text)>>,
          <<"has_tonnage", has_tonnage(text)>>,
          <<"has_vessel_name", has_vessel_name(text)>>,
          <<"has_port_names", has_port_names(text)>>,
          <<"subject_length", Len(Get(email, "subject", <<>>))>>,
          <<"body_length", Len(Get(email, "body", <<>>))>>,
          <<"is_shipping_domain", SenderMatches(shipping_domains, sender)>>,
          <<"is_cargo_domain", SenderMatches(cargo_domains, sender)>> >>

CARGO == <<"C","A","R","G","O">>
VESSEL == <<"V","E","S","S","E","L">>

\* Labelled sample records the corpus is drawn from, by name.  The blank
\* records carry each of subject, body and sender either as '' or not at all.
BlankPresent ==
    [ blank_none |-> {},
      blank_s    |-> {"subject"},
      blank_b    |-> {"body"},
      blank_n    |-> {"sender"},
      blank_sb   |-> {"subject", "body"},
      blank_sn   |-> {"subject", "sender"},
      blank_bn   |-> {"body", "sender"},
      blank_sbn  |-> {"subject", "body", "sender"} ]
BlankIds == DOMAIN BlankPresent

SampleRecords ==
    [ cargo  |-> [ subject |-> <<"5","0","0"," ","M","T"," ","S","t","e","e","l">>,
                   body    |-> <<"c","a","r","g","o"," ","e","x"," ","S","h","a","n","g","h","a","i">>,
                   sender  |-> <<"c","a","r","g","o","@","l","o","g","i","s","t","i","c","s",".","c","o","m">>,
                   type    |-> CARGO ],
      vessel |-> [ subject |-> <<"M","V"," ","S","t","a","r"," ","o","p","e","n">>,
                   body    |-> <<"5","5",",","0","0","0"," ","D","W","T">>,
                   sender  |-> <<"o","p","s","@","b","u","l","k","s","h","i","p",".","s","g">>,
                   type    |-> VESSEL ] ]

\* the email dict a record name stands for
Record(id) ==
    IF id \in BlankIds
    THEN [f \in BlankPresent[id] \cup {"type"} |-> IF f = "type" THEN CARGO ELSE <<>>]
    ELSE SampleRecords[id]

RECURSIVE SeqsUpTo(_, _)
SeqsUpTo(S, n) ==
    IF n = 0 THEN {<<>>}
    ELSE LET shorter == SeqsUpTo(S, n - 1)
         IN shorter \cup {Append(s, x) : s \in shorter, x \in S}

\* a CARGO records followed by b VESSEL records
Block(a, b) == [i \in 1..(a + b) |-> IF i <= a THEN "cargo" ELSE "vessel"]

\* the values training_data is drawn from
Corpora ==
    SeqsUpTo({"cargo", "vessel", "blank_none", "blank_sbn"}, MaxShort)
        \cup {<<id>> : id \in BlankIds}
        \cup {Block(a, b) : a \in 0..MaxCargo, b \in 0..MaxVessel}

\* pd.DataFrame(list of dicts): the columns are the keys in order of first
\* appearance, a key a dict lacks gives NaN
RECURSIVE FrameColumns(_, _)
FrameColumns(dicts, seen) ==
    IF dicts = <<>> THEN seen
    ELSE LET new == SelectSeq(DictKeys(Head(dicts)), LAMBDA k : k \notin SeqToSet(seen))
         IN FrameColumns(Tail(dicts), seen \o new)

DataFrame(dicts) ==
    LET cols == FrameColumns(dicts, <<>>)
    IN [ columns |-> cols,
         rows    |-> MapSeq(LAMBDA d :
                        MapSeq(LAMBDA col :
                            IF col \in SeqToSet(DictKeys(d))
                            THEN DictGet(d, col) ELSE "NaN", cols), dicts) ]

\* df[name] = values, for a new column name
WithColumn(df, name, values) ==
    [ columns |-> Append(df.columns, name),
      rows    |-> MapSeq(LAMBDA i : Append(df.rows[i], values[i]), Range(Len(df.rows))) ]

\* the loop with insert(0, ...) in place of append
RECURSIVE prepare_loop_prepend(_, _, _)
prepare_loop_prepend(data, X, y) ==
    IF data = <<>> THEN <<X, y>>
    ELSE LET email == Record(Head(data))
             features == extract_features(email)
         IN prepare_loop_prepend(Tail(data), <<features>> \o X, <<email["type"]>> \o y)

\* the for loop of prepare_dataset: X and y after the records of data
RECURSIVE prepare_loop(_, _, _)
prepare_loop(data, X, y) ==
    IF data = <<>> THEN <<X, y>>
    ELSE LET email == Record(Head(data))
             features == extract_features(email)
         IN prepare_loop(Tail(data), Append(X, features), Append(y, email["type"]))

prepare_dataset(data) ==
    LET Xy == prepare_loop(data, <<>>, <<>>)
        df_features == DataFrame(Xy[1])
    IN WithColumn(df_features, "label", Xy[2])

(* ------------------------- to_csv / read_csv -------------------------- *)
\* dtype of each column extract_features produces (sum and len give int,
\* bool and any give bool); every other column holds str
BoolColumns ==
    {"has_tonnage", "has_vessel_name", "has_port_names",
     "is_shipping_domain", "is_cargo_domain"}
IntColumns ==
    {"cargo_keyword_count", "vessel_keyword_count", "subject_length", "body_length"}

DigitSeq == <<"0","1","2","3","4","5","6","7","8","9">>
RECURSIVE FormatInt(_)
FormatInt(n) ==
    IF n < 10 THEN <<DigitSeq[n + 1]>>
    ELSE Append(FormatInt(n \div 10), DigitSeq[(n % 10) + 1])

TrueText == <<"T","r","u","e">>
FalseText == <<"F","a","l","s","e">>

FormatCell(col, v) ==
    IF col \in BoolColumns THEN (IF v THEN TrueText ELSE FalseText)
    ELSE IF col \in IntColumns THEN FormatInt(v)
    ELSE v

\* df.to_csv(path, index=False): a header line and one line per row
to_csv(df) ==
    [ header |-> df.columns,
      lines  |-> [i \in 1..Len(df.rows) |->
                    [j \in 1..Len(df.columns) |-> FormatCell(df.columns[j], df.rows[i][j])]] ]

RECURSIVE ParseInt(_)
ParseInt(s) ==
    IF s = <<>> THEN 0
    ELSE 10 * ParseInt(SubSeq(s, 1, Len(s) - 1))
            + (CHOOSE d \in 0..9 : DigitSeq[d + 1] = s[Len(s)])

\* pd.read_csv(path): each column's dtype is inferred from its cells
read_csv(csv) ==
    LET n == Len(csv.lines)
        cells(j) == {csv.lines[i][j] : i \in 1..n}
        isBool(j) == n > 0 /\ cells(j) \subseteq {TrueText, FalseText}
        isInt(j) == n > 0 /\ \A c \in cells(j) : c # <<>> /\ SeqToSet(c) \subseteq Digits
        parse(j, c) == IF isBool(j) THEN c = TrueText
                       ELSE IF isInt(j) THEN ParseInt(c)
                       ELSE c
    IN [ columns |-> csv.header,
         rows    |-> [i \in 1..n |->
                        [j \in 1..Len(csv.header) |-> parse(j, csv.lines[i][j])]] ]
\* the sample emails of the smoke test
test_emails ==
    << [ subject |->
        <<"S","t","e","e","l"," ","c","o","i","l","s"," ","5","0","0","0",
        " ","M","T"," ","r","e","a","d","y"," ","f","o","r"," ","s","h",
        "i","p","m","e","n","t">>,
        body |->
        <<"W","e"," ","h","a","v","e"," ","s","t","e","e","l"," ","c","o",
        "i","l","s"," ","r","e","a","d","y"," ","a","t"," ","S","h","a",
        "n","g","h","a","i"," ","p","o","r","t","."," ","N","e","e","d",
        " ","v","e","s","s","e","l"," ","f","o","r"," ","J","a","p","a",
        "n">>,
        sender |->
        <<"s","t","e","e","l","@","e","x","p","o","r","t",".","c","n">> ],
       [ subject |->
        <<"M","V"," ","S","t","a","r"," ","E","a","g","l","e"," ","o","p",
        "e","n"," ","p","o","s","i","t","i","o","n">>,
        body |->
        <<"B","u","l","k"," ","c","a","r","r","i","e","r"," ","5","5",",",
        "0","0","0"," ","D","W","T"," ","o","p","e","n"," ","S","i","n",
        "g","a","p","o","r","e"," ","n","e","x","t"," ","w","e","e","k">>,
        sender |->
        <<"o","p","s","@","b","u","l","k","s","h","i","p",".","s","g">> ] >>

(* --------------------------- train_model.py --------------------------- *)
\* the keys of the models dict, in declaration order
ModelNames == <<"RandomForest", "GradientBoosting", "LogisticRegression", "SVM">>

\* cross_val_score(..., cv=5)
cv == 5

\* `name in ['LogisticRegression', 'SVM']`, as written at each of its uses
NeedsScalingLoop(name) == name \in {"LogisticRegression", "SVM"}
NeedsScalingRefit(name) == name \in {"LogisticRegression", "SVM"}
NeedsScalingMetaLogisticOnly(name) == name \in {"LogisticRegression"}
NeedsScalingMeta(name) == name \in {"LogisticRegression", "SVM"}

\* the comprehension without its filter
FeatureColumnsWithLabel(df) == df.columns

\* [col for col in df.columns if col != 'label']
FeatureColumns(df) == SelectSeq(df.columns, LAMBDA col : col # "label")

\* position of a column name
ColumnIndex(df, col) == CHOOSE j \in 1..Len(df.columns) : df.columns[j] = col

\* df[cols].values and df[col].values
Values(df, cols) ==
    [i \in 1..Len(df.rows) |->
        [j \in 1..Len(cols) |-> df.rows[i][ColumnIndex(df, cols[j])]]]
Column(df, col) == [i \in 1..Len(df.rows) |-> df.rows[i][ColumnIndex(df, col)]]

\* X.shape[1]
NumColumns(X) == IF X = <<>> THEN 0 ELSE Len(X[1])

RECURSIVE SumSeq(_)
SumSeq(s) == IF s = <<>> THEN 0 ELSE Head(s) + SumSeq(Tail(s))

\* np.unique(y) over the labels of the sample records, and its counts
classes(y) == SelectSeq(<<CARGO, VESSEL>>, LAMBDA c : c \in SeqToSet(y))
class_counts(y) ==
    [k \in 1..Len(classes(y)) |-> Cardinality({i \in 1..Len(y) : y[i] = classes(y)[k]})]

\* train_test_split(test_size=0.2): n_test = ceil(0.2 * n), n_train = n - n_test
n_test_of(n) == (n + 4) \div 5
n_train_of(n) == n - n_test_of(n)

\* the ValueError train_test_split(..., stratify=y) raises, or "ok"
SplitError(y) ==
    LET n == Len(y)
        counts == class_counts(y)
    IN IF n_train_of(n) = 0 THEN "empty_train_set"
       ELSE IF \E k \in 1..Len(counts) : counts[k] < 2 THEN "class_with_one_member"
       ELSE IF n_train_of(n) < Len(counts) \/ n_test_of(n) < Len(counts)
            THEN "fewer_rows_than_classes"
       ELSE "ok"

\* _approximate_mode(class_counts, n_draws, rng): every class gets the floor
\* of its share and the classes with the largest remainders get one more;
\* equal remainders are broken by the random generator
Allocations(counts, n_draws) ==
    LET K == Len(counts)
        total == SumSeq(counts)
        fl(k) == (counts[k] * n_draws) \div total
        rem(k) == (counts[k] * n_draws) % total
    IN { a \in [1..K -> 0..n_draws] :
            /\ \A k \in 1..K : a[k] \in {fl(k), fl(k) + 1}
            /\ SumSeq(a) = n_draws
            /\ \A k, l \in 1..K :
                  (a[k] = fl(k) + 1 /\ a[l] = fl(l)) => rem(k) >= rem(l) }

\* model.fit raises on a one-class target for every family but the forest
FitRaises(name, y_counts) ==
    name # "RandomForest" /\ Cardinality({k \in 1..Len(y_counts) : y_counts[k] > 0}) < 2

\* StratifiedKFold(n_splits=cv) raises when n_splits exceeds the members of
\* every class (a single short class only warns)
CvRaises(y_counts) == \A k \in 1..Len(y_counts) : cv > y_counts[k]

\* correct test predictions a fitted model can make: a one-class target is
\* always predicted right
CorrectCounts(n_test, y_counts) ==
    IF Cardinality({k \in 1..Len(y_counts) : y_counts[k] > 0}) < 2
    THEN {n_test} ELSE 0..n_test

\* accuracy > best_score, on fractions <<numerator, denominator>>
Greater(a, b) == a[1] * b[2] > b[1] * a[2]

\* the scaler fitted on X before the split
FitScalerAll(s) == [s EXCEPT !.fitted_on = "full"]

\* scaler.fit_transform(X_train) and scaler.fit_transform(X)
FitScalerTrain(s) == [s EXCEPT !.fitted_on = "train"]
RefitScaler(s) == [s EXCEPT !.fitted_on = "full"]

\* what model.fit leaves in the estimator
Fitted(on, n_features, scaled, scaler_state) ==
    [ fitted_on |-> on, n_features_in |-> n_features,
      scaled |-> scaled, scaler_seen |-> IF scaled THEN scaler_state ELSE "unused" ]
Unfitted == Fitted("unfit", 0, FALSE, "unused")

(* ------------------------------- state -------------------------------- *)
VARIABLES
    run,               \* number of pipeline runs started so far
    pc,                \* position of the current run
    err,               \* what ended an aborted run
    training_data,     \* prepare_training_data.training_data, as record names
    df,                \* the frame prepare_dataset returned to __main__
    files,             \* the ml/ directory: each file is <<>> or <<content>>
    written,           \* the artifacts the current run has written
    feature_columns, X, y,
    part,              \* the stratified split: sizes and per-class train counts
    scaler,            \* the StandardScaler
    models,            \* the estimators of the models dict, by name
    idx,               \* position of the candidate loop in ModelNames
    scores,            \* the test accuracies the loop has computed so far
    best_model, best_score, best_model_name,
    metadata,          \* <<>> until line 109 assigns it
    smoke              \* what the sample-email loop scored

vars ==
    << run, pc, err, training_data, df, files, written, feature_columns, X, y,
       part, scaler, models, idx, scores, best_model, best_score,
       best_model_name, metadata, smoke >>

trainLocals ==
    << feature_columns, X, y, part, scaler, models, idx, scores, best_model,
       best_score, best_model_name, metadata, smoke >>

NoFiles == [ csv |-> <<>>, scaler |-> <<>>, model |-> <<>>, metadata |-> <<>> ]
NoPart == [ n_train |-> 0, n_test |-> 0, y_train_counts |-> <<>> ]
NoFrame == [ columns |-> <<>>, rows |-> <<>> ]

\* the locals of train_email_classifier before it runs
FreshModels == [name \in SeqToSet(ModelNames) |-> Unfitted]
FreshScaler == [fitted_on |-> "unfit"]

FreshLocals ==
    /\ feature_columns = <<>>
    /\ X = <<>>
    /\ y = <<>>
    /\ part = NoPart
    /\ scaler = FreshScaler
    /\ models = FreshModels
    /\ idx = 0
    /\ scores = <<>>
    /\ best_model = "None"
    /\ best_score = <<0, 1>>
    /\ best_model_name = "None"
    /\ metadata = <<>>
    /\ smoke = <<>>

ResetLocals ==
    /\ feature_columns' = <<>>
    /\ X' = <<>>
    /\ y' = <<>>
    /\ part' = NoPart
    /\ scaler' = FreshScaler
    /\ models' = FreshModels
    /\ idx' = 0
    /\ scores' = <<>>
    /\ best_model' = "None"
    /\ best_score' = <<0, 1>>
    /\ best_model_name' = "None"
    /\ metadata' = <<>>
    /\ smoke' = <<>>

Init ==
    /\ run = 0
    /\ pc = "idle"
    /\ err = "none"
    /\ training_data = <<>>
    /\ df = NoFrame
    /\ files = NoFiles
    /\ written = {}
    /\ FreshLocals

Abort(why) ==
    /\ pc' = "aborted"
    /\ err' = why

\* lines 159-160 over every corpus of the model, computed once
PreparedCorpora ==
    {<<c, prepare_dataset(c), to_csv(prepare_dataset(c))>> : c \in Corpora}

(* ------------------------------ actions ------------------------------- *)
\* __main__, lines 157-160: a run of the script over some corpus builds the
\* frame and writes ml/training_data.csv; the ml/ directory is what earlier
\* runs left
RunScript(prepared) ==
    /\ pc \in {"idle", "done", "aborted"}
    /\ run < MaxRuns
    /\ run' = run + 1
    /\ \E p \in prepared :
          /\ training_data' = p[1]
          /\ df' = p[2]
          /\ files' = [files EXCEPT !.csv = <<p[3]>>]
    /\ pc' = "train"
    /\ err' = "none"
    /\ written' = {}
    /\ ResetLocals

Main == RunScript(PreparedCorpora)

\* lines 16-32: load the csv, separate features and labels, split, scale
LoadAndSplit ==
    /\ pc = "train"
    /\ LET frame == read_csv(files.csv[1])
           cols == FeatureColumns(frame)
           labels == Column(frame, "label")
       IN /\ feature_columns' = cols
          /\ X' = Values(frame, cols)
          /\ y' = labels
          /\ IF SplitError(labels) # "ok"
             THEN /\ Abort(SplitError(labels))
                  /\ UNCHANGED << part, scaler, idx >>
             ELSE /\ \E n_i \in Allocations(class_counts(labels), n_train_of(Len(labels))) :
                        part' = [ n_train |-> n_train_of(Len(labels)),
                                  n_test |-> n_test_of(Len(labels)),
                                  y_train_counts |-> n_i ]
                  /\ scaler' = FitScalerTrain(scaler)
                  /\ idx' = 1
                  /\ pc' = "loop"
                  /\ err' = err
    /\ UNCHANGED << run, training_data, df, files, written, models, scores,
                    best_model, best_score, best_model_name, metadata, smoke >>

\* lines 67-92: one iteration of the candidate loop
TrainCandidate ==
    /\ pc = "loop"
    /\ LET name == ModelNames[idx]
           scaled == NeedsScalingLoop(name)
           fitted == Fitted("train", NumColumns(X), scaled, scaler.fitted_on)
       IN IF FitRaises(name, part.y_train_counts)
          THEN /\ Abort("fit_failed")
               /\ UNCHANGED << models, idx, scores, best_model, best_score, best_model_name >>
          ELSE /\ models' = [models EXCEPT ![name] = fitted]
               /\ IF CvRaises(part.y_train_counts)
                  THEN /\ Abort("too_few_for_folds")
                       /\ UNCHANGED << idx, scores, best_model, best_score, best_model_name >>
                  ELSE \E correct \in CorrectCounts(part.n_test, part.y_train_counts) :
                          LET accuracy == <<correct, part.n_test>>
                          IN /\ scores' = Append(scores, accuracy)
                             /\ IF Greater(accuracy, best_score)
                                THEN /\ best_score' = accuracy
                                     /\ best_model' = name
                                     /\ best_model_name' = name
                                ELSE UNCHANGED << best_model, best_score, best_model_name >>
                             /\ idx' = idx + 1
                             /\ pc' = IF idx = Len(ModelNames) THEN "selected" ELSE "loop"
                             /\ err' = err
    /\ UNCHANGED << run, training_data, df, files, written, feature_columns, X, y,
                    part, scaler, metadata, smoke >>

\* lines 97-104: refit the winner on all data, and the scaler when it needs one
Refit ==
    /\ pc = "selected"
    /\ scores' = <<>>
    /\ IF NeedsScalingRefit(best_model_name)
       THEN /\ scaler' = RefitScaler(scaler)
            /\ models' = [models EXCEPT ![best_model] =
                             Fitted("full", NumColumns(X), TRUE, scaler'.fitted_on)]
            /\ \/ /\ files' = [files EXCEPT !.scaler = <<scaler'>>]
                  /\ written' = written \cup {"scaler"}
                  /\ pc' = "save_model"
                  /\ err' = err
               \/ /\ Abort("write_failed")
                  /\ UNCHANGED << files, written >>
       ELSE /\ UNCHANGED << scaler, files, written >>
            /\ IF best_model = "None"
               THEN /\ Abort("best_model_is_none")
                    /\ UNCHANGED models
               ELSE /\ models' = [models EXCEPT ![best_model] =
                                     Fitted("full", NumColumns(X), FALSE, scaler.fitted_on)]
                    /\ pc' = "save_model"
                    /\ err' = err
    /\ UNCHANGED << run, training_data, df, feature_columns, X, y, part, idx,
                    best_model, best_score, best_model_name, metadata, smoke >>

\* line 107: joblib.dump(best_model, 'ml/email_classifier.pkl')
SaveModel ==
    /\ pc = "save_model"
    /\ \/ /\ files' = [files EXCEPT !.model =
                          << [name |-> best_model, estimator |-> models[best_model]] >>]
          /\ written' = written \cup {"model"}
          /\ pc' = "save_metadata"
          /\ err' = err
       \/ /\ Abort("write_failed")
          /\ UNCHANGED << files, written >>
    /\ UNCHANGED << run, training_data, df, trainLocals >>

\* lines 109-118: build the metadata and write ml/model_metadata.json
SaveMetadata ==
    /\ pc = "save_metadata"
    /\ metadata' = << [ model_type |-> best_model_name,
                        accuracy |-> best_score,
                        feature_columns |-> feature_columns,
                        classes |-> <<CARGO, VESSEL>>,
                        needs_scaling |-> NeedsScalingMeta(best_model_name) ] >>
    /\ \/ /\ files' = [files EXCEPT !.metadata = metadata']
          /\ written' = written \cup {"metadata"}
          /\ pc' = "smoke"
          /\ err' = err
       \/ /\ Abort("write_failed")
          /\ UNCHANGED << files, written >>
    /\ UNCHANGED << run, training_data, df, feature_columns, X, y, part, scaler,
                    models, idx, scores, best_model, best_score, best_model_name,
                    smoke >>

\* extract_features of the sample emails, computed once
test_features == [i \in 1..Len(test_emails) |-> extract_features(test_emails[i])]

\* lines 140-154: score the sample emails
SmokeTest ==
    /\ pc = "smoke"
    /\ IF \E i \in 1..Len(test_emails) :
             ~(SeqToSet(feature_columns) \subseteq SeqToSet(DictKeys(test_features[i])))
       THEN /\ Abort("key_error")
            /\ smoke' = smoke
       ELSE /\ smoke' =
                 [i \in 1..Len(test_emails) |->
                     LET features_df == [ columns |-> feature_columns,
                                          rows |-> Values(DataFrame(<<test_features[i]>>),
                                                          feature_columns) ]
                     IN [ columns |-> features_df.columns,
                          n_columns |-> NumColumns(features_df.rows),
                          scaler |-> IF metadata[1].needs_scaling
                                     THEN scaler.fitted_on ELSE "unused",
                          estimator |-> models[best_model] ]]
            /\ pc' = "done"
            /\ err' = err
    /\ UNCHANGED << run, training_data, df, files, written, feature_columns, X, y,
                    part, scaler, models, idx, scores, best_model, best_score,
                    best_model_name, metadata >>

Next ==
    \/ Main
    \/ LoadAndSplit
    \/ TrainCandidate
    \/ Refit
    \/ SaveModel
    \/ SaveMetadata
    \/ SmokeTest

Spec == Init /\ [][Next]_vars
(* ------------------------------ properties ---------------------------- *)
ScaledNames == {"LogisticRegression", "SVM"}
TreeNames == {"RandomForest", "GradientBoosting"}
NineFields ==
    << "cargo_keyword_count", "vessel_keyword_count", "has_tonnage",
       "has_vessel_name", "has_port_names", "subject_length", "body_length",
       "is_shipping_domain", "is_cargo_domain" >>
SomeCandidateFitted == \E name \in SeqToSet(ModelNames) : models[name].fitted_on # "unfit"

\* index of the earliest score that no other score exceeds
FirstMaxIndex(s) ==
    CHOOSE i \in 1..Len(s) :
        /\ \A j \in 1..Len(s) : ~Greater(s[j], s[i])
        /\ \A j \in 1..(i - 1) : Greater(s[i], s[j])

\* C1: when the candidate loop ends, the selected candidate is the earliest
\* declared one among those with the maximal test accuracy, whatever the
\* accuracies are (ties and all-zero lists included).
C1_SelectsFirstMaximum ==
    pc = "selected" =>
        /\ best_model_name = ModelNames[FirstMaxIndex(scores)]
        /\ best_model = best_model_name
        /\ best_score = scores[FirstMaxIndex(scores)]

\* C2: a candidate whose fit fails after another candidate succeeded does not
\* abort the run.
C2_FitFailureTolerated ==
    (err = "fit_failed" /\ SomeCandidateFitted) => pc # "aborted"

\* C3: a run that has ended wrote either all of its artifacts (model,
\* metadata, and the scaler when the selected model needs scaling) or none.
C3_AllOrNothing ==
    pc \in {"done", "aborted"} =>
        \/ written = {}
        \/ written = {"model", "metadata"}
                        \cup (IF best_model_name \in ScaledNames THEN {"scaler"} ELSE {})

\* C4: a run that ends with a data-shape error (empty dataset, or too few
\* examples of a class for the split or the cv folds) has fitted no candidate.
C4_NoFitBeforeShapeError ==
    (pc = "aborted" /\ err \in {"empty_train_set", "class_with_one_member",
                               "fewer_rows_than_classes", "too_few_for_folds"})
        => ~SomeCandidateFitted

\* C5: while candidates are compared the scaler is fitted on the training
\* partition only and every scaled candidate was scored with that scaler; the
\* scaler is fitted on the full matrix only after selection and only for a
\* LogisticRegression or SVM winner; the scaler written by the run, and the
\* one the smoke test applies, is the full-data refit, paired with the model
\* refitted on the full scaled data.
C5_ScalerPhases ==
    /\ pc \in {"loop", "selected"} =>
          /\ scaler.fitted_on = "train"
          /\ \A name \in SeqToSet(ModelNames) :
                models[name].fitted_on # "unfit" =>
                    /\ models[name].fitted_on = "train"
                    /\ models[name].scaler_seen \in {"train", "unused"}
                    /\ name \in ScaledNames => models[name].scaler_seen = "train"
    /\ scaler.fitted_on = "full" =>
          /\ pc \in {"save_model", "save_metadata", "smoke", "done", "aborted"}
          /\ best_model_name \in ScaledNames
    /\ (pc \in {"save_model", "save_metadata", "smoke", "done"}
            /\ best_model_name \in ScaledNames) =>
          /\ scaler.fitted_on = "full"
          /\ "scaler" \in written
    /\ "scaler" \in written =>
          /\ files.scaler = <<[fitted_on |-> "full"]>>
          /\ models[best_model] = Fitted("full", Len(feature_columns), TRUE, "full")
    /\ ("model" \in written /\ best_model_name \in ScaledNames) =>
          /\ "scaler" \in written
          /\ files.model[1].estimator = Fitted("full", Len(feature_columns), TRUE, "full")
    /\ \A i \in 1..Len(smoke) :
          /\ smoke[i].scaler = IF best_model_name \in ScaledNames THEN "full" ELSE "unused"
          /\ smoke[i].estimator.fitted_on = "full"
          /\ smoke[i].estimator.scaler_seen = smoke[i].scaler

C5_Witness ==
    /\ pc = "done"
    /\ "scaler" \in written
    /\ Len(smoke) = 2
    /\ smoke[1].scaler = "full"

\* C6: when a run ends successfully, ml/scaler.pkl exists if and only if the
\* metadata that run wrote says needs_scaling, also after earlier runs.
C6_ScalerFileIffNeedsScaling ==
    pc = "done" => ((files.scaler # <<>>) <=> files.metadata[1].needs_scaling)

\* C7: the metadata of a successful run has needs_scaling true exactly for
\* LogisticRegression and SVM and false for RandomForest and GradientBoosting,
\* and that is how the selected candidate was fitted during comparison and at
\* the refit.
C7_NeedsScalingMatchesModelType ==
    /\ (pc = "selected" /\ best_model_name # "None") =>
          models[best_model_name].scaled = (best_model_name \in ScaledNames)
    /\ pc \in {"smoke", "done"} =>
          /\ files.metadata = metadata
          /\ metadata[1].model_type = best_model_name
          /\ metadata[1].model_type \in ScaledNames \cup TreeNames
          /\ metadata[1].needs_scaling = (metadata[1].model_type \in ScaledNames)
          /\ metadata[1].model_type \in TreeNames => ~metadata[1].needs_scaling
          /\ models[best_model].scaled = metadata[1].needs_scaling
          /\ files.model[1].estimator.scaled = metadata[1].needs_scaling

C7_Witness ==
    /\ pc = "done"
    /\ metadata[1].model_type = "SVM"
    /\ metadata[1].needs_scaling

\* C8: the feature_columns written to the metadata are the nine fields of
\* extract_features in its order, without the label; as many columns as the
\* models were fitted on; and the order of every vector the smoke test scores.
C8_FeatureOrderPreserved ==
    /\ \A name \in SeqToSet(ModelNames) :
          models[name].fitted_on # "unfit" =>
              models[name].n_features_in = Len(feature_columns)
    /\ pc \in {"smoke", "done"} =>
          /\ files.metadata = metadata
          /\ metadata[1].feature_columns = NineFields
          /\ \A i \in 1..Len(test_features) :
                DictKeys(test_features[i]) = metadata[1].feature_columns
          /\ "label" \notin SeqToSet(metadata[1].feature_columns)
          /\ Len(metadata[1].feature_columns) = models[best_model].n_features_in
          /\ Len(metadata[1].feature_columns) = files.model[1].estimator.n_features_in
    /\ pc = "done" =>
          /\ Len(smoke) = Len(test_emails)
          /\ \A i \in 1..Len(smoke) :
                /\ smoke[i].columns = metadata[1].feature_columns
                /\ smoke[i].n_columns = smoke[i].estimator.n_features_in

C8_Witness ==
    /\ pc = "done"
    /\ Len(smoke) = 2
    /\ Len(metadata[1].feature_columns) = 9

\* extract_features of every sample record, computed once
RecordFeatures ==
    [id \in BlankIds \cup DOMAIN SampleRecords |-> extract_features(Record(id))]

\* C9: the frame prepare_dataset returns has one row per input record, in
\* input order: row i holds extract_features of record i followed by the
\* label of record i.
C9_RowsFollowCorpus ==
    pc # "idle" =>
        /\ Len(df.rows) = Len(training_data)
        /\ \A i \in 1..Len(training_data) :
              LET email == Record(training_data[i])
                  features == RecordFeatures[training_data[i]]
              IN /\ Len(df.rows[i]) = Len(features) + 1
                 /\ \A j \in 1..Len(features) : df.rows[i][j] = features[j][2]
                 /\ df.rows[i][Len(features) + 1] = email["type"]

C9_Witness ==
    /\ pc = "train"
    /\ Len(training_data) = 2
    /\ training_data[1] = "vessel"
    /\ training_data[2] = "blank_none"
    /\ Len(df.rows) = 2

\* whether subject, body and sender are each '' or missing
IsBlank(email) ==
    \A f \in {"subject", "body", "sender"} : Get(email, f, <<>>) = <<>>

\* C10: the row of a record whose subject, body and sender are empty or
\* missing has all nine fields, every boolean feature false and every count
\* and length feature zero.
C10_BlankRecordAllZero ==
    pc # "idle" =>
        \A i \in 1..Len(training_data) :
            IsBlank(Record(training_data[i])) =>
                /\ SubSeq(df.columns, 1, 9) = NineFields
                /\ Len(df.rows[i]) = 10
                /\ \A j \in 1..9 :
                      IF df.columns[j] \in {"has_tonnage", "has_vessel_name", "has_port_names",
                                            "is_shipping_domain", "is_cargo_domain"}
                      THEN df.rows[i][j] = FALSE
                      ELSE df.rows[i][j] = 0

C10_Witness ==
    /\ pc = "train"
    /\ training_data = <<"blank_b">>
    /\ "sender" \notin DOMAIN Record(training_data[1])
    /\ Len(df.rows) = 1
=============================================================================
